---- MODULE Spec2Model ----
(***************************************************************************)
(* libex: local exception handling for C built from macros (libex.h).      *)
(*                                                                         *)
(* A frame  TRY(D) {T} IN {I} HANDLE c1 {H1} ... cn {Hn} FINALLY {F}        *)
(* expands to                                                              *)
(*                                                                         *)
(*   do { THROWS = ENoError;                           -- outer loop       *)
(*        { D; do {T} while(0);                        -- inner loop       *)
(*          if (THROWS == ENoError) {I} }                                  *)
(*        switch (THROWS) {                                                *)
(*          case ENoError: case EEarlyReturn: break;                       *)
(*          THROWS = ENoError; break; c1: {H1}                             *)
(*          ...                                                            *)
(*          THROWS = ENoError; break; cn: {Hn}                             *)
(*          break; } } while(0);                                           *)
(*   {F}                                                                   *)
(*                                                                         *)
(* and THROW(E) to  { THROWS = (exc_type)(E); break; }.                    *)
(*                                                                         *)
(* The model is an interpreter of that expansion.  The function under      *)
(* execution is the input.  It is either one of the functions of tests.c,  *)
(* or any function: then every step draws the next statement of the block  *)
(* that is executing (a nested TRY(D) or TRYE, THROW, RETURN, MAYBE,       *)
(* RETHROW, the end of the block), the handler list of a frame is drawn    *)
(* when its switch is                                                      *)
(* reached, and whether ENDTRY follows a frame when the frame closes.       *)
(* What a frame did is kept in its record; a closed frame keeps a summary.  *)
(*                                                                         *)
(* tests.c is written against CATCHANY, RETHROW, ENDTRY, DONE and CHECK,     *)
(* which libex.h does not define; they are modelled from the specification. *)
(***************************************************************************)
EXTENDS Integers, Sequences, FiniteSets

\* ---------------------------------------------------------------- taxonomy
ENoError == 0
EEarlyReturn == -1
ENullRef == 0
EEnsureViolated == 0
EInvalidOp == 1
EUnrecoverable == 131

\* the values of the function's exc_type local in the modelled runs
Kinds == {ENoError, EEarlyReturn, ENullRef, EEnsureViolated, EInvalidOp, EUnrecoverable}

\* the kinds THROW(E) is drawn with, and the kinds MAYBE(E, R) is drawn with
ThrowKinds == {EInvalidOp, EUnrecoverable}
MaybeKinds == {ENullRef, EEnsureViolated, EUnrecoverable}

\* ---------------------------------------------------------------- bounds
MaxFrames == 2

\* ---------------------------------------------------------------- handlers
CATCH(e) == [wild |-> FALSE, k |-> e]
OTHERWISE == [wild |-> TRUE, k |-> ENoError]
CATCHANY == OTHERWISE

\* the handler lists of the modelled frames: none, a single clause, a
\* wildcard declared last or first, two CATCH clauses; each compiles (no
\* case label twice, none equal to the labels of HANDLE, one default)
HandlerLists ==
    {<<>>,
     <<CATCH(EInvalidOp)>>,
     <<OTHERWISE>>,
     <<CATCH(EInvalidOp), OTHERWISE>>,
     <<OTHERWISE, CATCH(EInvalidOp)>>,
     <<CATCH(EInvalidOp), CATCH(EUnrecoverable)>>}

Frames == 1..MaxFrames

\* the argument D of TRY(D): none, as in TRY(), or an expression and the
\* exc_type it evaluates to
NoExpr == [given |-> FALSE, v |-> ENoError]
Expr(v) == [given |-> TRUE, v |-> v]
TryExprs == {NoExpr, Expr(ENoError), Expr(EInvalidOp), Expr(EUnrecoverable)}

\* the values X of TRYE(X, C) leaves in errno
ErrnoValues == {ENoError, EUnrecoverable}

\* the blocks of a frame that hold user statements
UserSecs == {"try", "in", "handler", "fin"}

\* ---------------------------------------------------------------- functions
\* statements of a block
Nop == [op |-> "none", k |-> ENoError, null |-> FALSE]
Thr(e) == [op |-> "throw", k |-> e, null |-> FALSE]
Rethr == [op |-> "rethrow", k |-> ENoError, null |-> FALSE]
May(isnull, e) == [op |-> "maybe", k |-> e, null |-> isnull]
Chk(e) == [op |-> "check", k |-> e, null |-> FALSE]

\* a block of a function of tests.c is its nested frames, then one statement
test_noerr ==
    [name |-> "test_noerr", exit |-> "DONE",
     frames |-> <<[parent |-> 0, psec |-> "top", hs |-> <<CATCHANY>>,
                   endtry |-> FALSE, try |-> Thr(EUnrecoverable), in |-> Nop,
                   h |-> <<Nop>>, fin |-> Nop]>>]

test_unwind_try(e) ==
    [name |-> "test_unwind_try", exit |-> "DONE",
     frames |-> <<[parent |-> 0, psec |-> "top",
                   hs |-> <<CATCH(EInvalidOp), CATCHANY>>,
                   endtry |-> FALSE, try |-> Nop, in |-> Nop,
                   h |-> <<Thr(e), Nop>>, fin |-> Nop],
                  [parent |-> 1, psec |-> "try", hs |-> <<CATCHANY>>,
                   endtry |-> TRUE, try |-> Thr(e), in |-> Nop,
                   h |-> <<Thr(EInvalidOp)>>, fin |-> Nop]>>]

test_unwind_in(e) ==
    [name |-> "test_unwind_in", exit |-> "DONE",
     frames |-> <<[parent |-> 0, psec |-> "top", hs |-> <<CATCHANY>>,
                   endtry |-> FALSE, try |-> Nop, in |-> Thr(e),
                   h |-> <<Nop>>, fin |-> Nop]>>]

test_maybe(isnull) ==
    [name |-> "test_maybe", exit |-> "DONE",
     frames |-> <<[parent |-> 0, psec |-> "top", hs |-> <<CATCHANY>>,
                   endtry |-> FALSE, try |-> May(isnull, EUnrecoverable),
                   in |-> Nop, h |-> <<Rethr>>, fin |-> Nop]>>]

test_errno(e) ==
    [name |-> "test_errno", exit |-> "DONE",
     frames |-> <<[parent |-> 0, psec |-> "top", hs |-> <<CATCHANY>>,
                   endtry |-> FALSE, try |-> Chk(e), in |-> Nop,
                   h |-> <<Rethr>>, fin |-> Nop]>>]

\* any function: its statements are drawn while it runs
AnyFunction == [name |-> "any", exit |-> "EXIT", frames |-> <<>>]

\* the calls of main, and any function
Programs ==
    {AnyFunction, test_noerr, test_unwind_try(EUnrecoverable),
     test_unwind_in(EUnrecoverable), test_errno(ENoError),
     test_errno(EUnrecoverable), test_maybe(TRUE), test_maybe(FALSE)}

NoFrame ==
    [parent |-> 0, psec |-> "none", hs |-> <<>>,
     phase |-> "none", hsel |-> 0,
     nin |-> 0, nh |-> 0, nfin |-> 0, ndisp |-> 0,
     dispK |-> ENoError, finK |-> ENoError, closeK |-> ENoError,
     raisedIn |-> "none", raisedK |-> ENoError, raisedBy |-> "none",
     hraise |-> "none", hraiseK |-> ENoError, fraise |-> FALSE,
     pendK |-> ENoError, why |-> "none"]

VARIABLES
    prog,     \* the function that is executing
    THROWS,   \* the function's exc_type local
    F,        \* frame id -> what the frame is and what it did so far
    cur,      \* the frame whose block is executing, 0 at function level
    nframes,  \* frames entered so far
    pc,       \* "run", or "done" once the function has returned
    result,   \* the value returned to the caller
    last      \* the statement executed by the last step

vars == <<prog, THROWS, F, cur, nframes, pc, result, last>>

\* ---------------------------------------------------------------- control
\* the frame's finalizer block starts (the statement after while(0);)
StartFin(FF, f, k) ==
    [FF EXCEPT ![f].phase = "fin", ![f].nfin = @ + 1, ![f].finK = k]

\* how a frame came to close with kind k: its finalizer raised k; or its
\* body raised k and no handler was selected, its handler raised k again or
\* raised k anew, and the finalizer left k alone; "none" otherwise
Why(r, k) ==
    CASE k = ENoError \/ k = EEarlyReturn -> "none"
      [] r.fraise -> "fthrow"
      [] r.finK # k -> "none"
      [] r.nh = 0 /\ r.raisedIn # "none" /\ r.raisedK = k -> "unmatched"
      [] r.hraise = "rethrow" /\ r.hraiseK = k /\ r.dispK = k -> "rethrow"
      [] r.hraise = "throw" /\ r.hraiseK = k -> "hthrow"
      [] OTHER -> "none"

\* what is kept of a frame once it is closed
Closed(r, k) ==
    [NoFrame EXCEPT !.phase = "closed", !.closeK = k, !.why = Why(r, k),
                    !.parent = r.parent, !.psec = r.psec, !.pendK = r.pendK,
                    !.nin = r.nin, !.nh = r.nh, !.nfin = r.nfin]

\* a break statement has an enclosing loop or switch to leave
RECURSIVE Breakable(_, _)
Breakable(FF, f) ==
    /\ f # 0
    /\ \/ FF[f].phase \in {"try", "in", "handler"}
       \/ FF[f].phase = "fin" /\ Breakable(FF, FF[f].parent)

\* Break with the finalizer block inside the outer loop: a break in the IN
\* body leaves the frame without running it
RECURSIVE Break_SkipFin(_, _, _)
Break_SkipFin(FF, f, k) ==
    IF f = 0 THEN [F |-> FF, cur |-> 0]
    ELSE CASE FF[f].phase = "try" ->
                [F |-> [FF EXCEPT ![f].phase = "guard"], cur |-> f]
           [] FF[f].phase = "in" ->
                [F |-> [FF EXCEPT ![f] = Closed(FF[f], k)], cur |-> FF[f].parent]
           [] FF[f].phase = "handler" ->
                [F |-> StartFin(FF, f, k), cur |-> f]
           [] FF[f].phase = "fin" ->
                Break_SkipFin([FF EXCEPT ![f] = Closed(FF[f], k)],
                              FF[f].parent, k)
           [] OTHER -> [F |-> FF, cur |-> f]

\* Break without the inner loop around the TRY section: a break in the TRY
\* section leaves the outer loop
RECURSIVE Break_TryLeavesFrame(_, _, _)
Break_TryLeavesFrame(FF, f, k) ==
    IF f = 0 THEN [F |-> FF, cur |-> 0]
    ELSE CASE FF[f].phase \in {"try", "in", "handler"} ->
                [F |-> StartFin(FF, f, k), cur |-> f]
           [] FF[f].phase = "fin" ->
                Break_TryLeavesFrame([FF EXCEPT ![f] = Closed(FF[f], k)],
                                     FF[f].parent, k)
           [] OTHER -> [F |-> FF, cur |-> f]

\* Break with the IN body inside the inner loop: a break in the IN body goes
\* on to the switch
RECURSIVE Break_InToDispatch(_, _, _)
Break_InToDispatch(FF, f, k) ==
    IF f = 0 THEN [F |-> FF, cur |-> 0]
    ELSE CASE FF[f].phase = "try" ->
                [F |-> [FF EXCEPT ![f].phase = "guard"], cur |-> f]
           [] FF[f].phase = "in" ->
                [F |-> [FF EXCEPT ![f].phase = "dispatch"], cur |-> f]
           [] FF[f].phase = "handler" ->
                [F |-> StartFin(FF, f, k), cur |-> f]
           [] FF[f].phase = "fin" ->
                Break_InToDispatch([FF EXCEPT ![f] = Closed(FF[f], k)],
                                   FF[f].parent, k)
           [] OTHER -> [F |-> FF, cur |-> f]

\* Break with the finalizer block inside the frame's loops: a break in the
\* finalizer goes on to the switch of the same frame
RECURSIVE Break_FinToDispatch(_, _, _)
Break_FinToDispatch(FF, f, k) ==
    IF f = 0 THEN [F |-> FF, cur |-> 0]
    ELSE CASE FF[f].phase = "try" ->
                [F |-> [FF EXCEPT ![f].phase = "guard"], cur |-> f]
           [] FF[f].phase \in {"in", "handler"} ->
                [F |-> StartFin(FF, f, k), cur |-> f]
           [] FF[f].phase = "fin" ->
                [F |-> [FF EXCEPT ![f].phase = "dispatch"], cur |-> f]
           [] OTHER -> [F |-> FF, cur |-> f]

\* break executed in the block of frame f that is executing, THROWS = k
RECURSIVE Break(_, _, _)
Break(FF, f, k) ==
    IF f = 0 THEN [F |-> FF, cur |-> 0]
    ELSE CASE FF[f].phase = "try" ->
                [F |-> [FF EXCEPT ![f].phase = "guard"], cur |-> f]
           [] FF[f].phase \in {"in", "handler"} ->
                [F |-> StartFin(FF, f, k), cur |-> f]
           [] FF[f].phase = "fin" ->
                Break([FF EXCEPT ![f] = Closed(FF[f], k)],
                      FF[f].parent, k)
           [] OTHER -> [F |-> FF, cur |-> f]

\* the record of a step: the statement, the frame and block it is in, the
\* kind it names (for TRY, IN, HANDLE and the end of a block: the value of
\* THROWS it found), the handler list of HANDLE, whether ENDTRY follows the
\* frame, the argument of TRY
Stmt(op, f, sec, k) ==
    [op |-> op, f |-> f, sec |-> sec, k |-> k, hs |-> <<>>, et |-> FALSE,
     d |-> NoExpr]

InBlock == pc = "run" /\ cur # 0 /\ F[cur].phase \in UserSecs
AtStmt == pc = "run" /\ (IF cur = 0 THEN TRUE ELSE F[cur].phase \in UserSecs)
CurSec == IF cur = 0 THEN "top" ELSE F[cur].phase

\* ---------------------------------------------------------------- the text
Free == prog.name = "any"

\* the next frame of the function's text is nested right here
NextChildHere ==
    /\ nframes < Len(prog.frames)
    /\ prog.frames[nframes + 1].parent = cur
    /\ prog.frames[nframes + 1].psec = CurSec

\* the statement of the block that is executing
CurStmt ==
    IF cur = 0 \/ cur > Len(prog.frames) THEN Nop
    ELSE CASE F[cur].phase = "try" -> prog.frames[cur].try
           [] F[cur].phase = "in" -> prog.frames[cur].in
           [] F[cur].phase = "handler" -> prog.frames[cur].h[F[cur].hsel]
           [] F[cur].phase = "fin" -> prog.frames[cur].fin
           [] OTHER -> Nop

\* the statement was executed and control is still behind it
Passed ==
    last.op \in {"maybe_ok", "check_ok"} /\ last.f = cur /\ last.sec = CurSec

Draws(s) == IF Free THEN TRUE ELSE ~NextChildHere /\ ~Passed /\ CurStmt = s
DrawsEnd == IF Free THEN TRUE ELSE ~NextChildHere /\ (Passed \/ CurStmt = Nop)

Init ==
    /\ prog \in Programs
    /\ THROWS \in Kinds
    /\ F = [f \in Frames |-> NoFrame]
    /\ cur = 0
    /\ nframes = 0
    /\ pc = "run"
    /\ result = ENoError
    /\ last = Stmt("none", 0, "none", ENoError)

\* the kind a pending raise has left in THROWS where a frame is entered in
\* a handler or a finalizer block
Pending(sec, k) == IF sec \in {"handler", "fin"} THEN k ELSE ENoError

\* TryValue with THROWS = D
TryValue_Assigned(d) == d.v

\* the value of THROWS behind  THROWS = ENoError; { D;  of TRY(D): D is an
\* expression statement, its value is dropped
TryValue(d) == ENoError

\* TRY(D) { ... : a frame is entered
Enter(op, d) ==
    /\ AtStmt
    /\ nframes < MaxFrames
    /\ LET id == nframes + 1 IN
        /\ THROWS' = TryValue(d)
        /\ F' = [F EXCEPT ![id] =
                   [NoFrame EXCEPT !.parent = cur, !.psec = CurSec,
                                   !.phase = "try",
                                   !.pendK = Pending(CurSec, THROWS)]]
        /\ cur' = id
        /\ nframes' = id
        /\ last' = [Stmt(op, id, "try", THROWS) EXCEPT !.d = d]
    /\ UNCHANGED <<prog, pc, result>>

TRY(d) ==
    /\ IF Free THEN TRUE ELSE NextChildHere /\ d = NoExpr
    /\ Enter("try", d)

\* the argument of the TRY that TRYE(X, C) ends with: (C) ? ENoError : errno
ErrnoKind(c, errno) == IF c THEN ENoError ELSE errno

\* TRYE(X, C): (X); TRY((C) ? ENoError : errno), where X leaves e in errno
\* and C is whether X succeeded
TRYE(e, c) ==
    /\ Free
    /\ Enter("trye", Expr(ErrnoKind(c, e)))

\* THROW(E): { THROWS = (exc_type)(E); break; }
THROW(e, op) ==
    /\ InBlock
    /\ Breakable(F, cur)
    /\ LET sec == F[cur].phase
           FF == CASE sec \in {"try", "in"} ->
                        [F EXCEPT ![cur].raisedIn = sec, ![cur].raisedK = e,
                                  ![cur].raisedBy = op]
                   [] sec = "handler" ->
                        [F EXCEPT ![cur].hraise = op, ![cur].hraiseK = e]
                   [] OTHER -> [F EXCEPT ![cur].fraise = TRUE]
           b == Break(FF, cur, e)
       IN /\ THROWS' = e
          /\ F' = b.F
          /\ cur' = b.cur
          /\ last' = Stmt(op, cur, sec, e)
    /\ UNCHANGED <<prog, nframes, pc, result>>

Throw ==
    \E e \in ThrowKinds : Draws(Thr(e)) /\ THROW(e, "throw")

\* RETURN: THROW(EEarlyReturn)
RETURN ==
    /\ Free
    /\ THROW(EEarlyReturn, "return")

\* MAYBE(E, R): if (NULL == (E)) THROW(R);
MAYBE(isnull, r) ==
    /\ Draws(May(isnull, r))
    /\ InBlock /\ F[cur].phase = "try"
    /\ IF isnull THEN THROW(r, "maybe")
       ELSE /\ last' = Stmt("maybe_ok", cur, "try", ENoError)
            /\ UNCHANGED <<prog, THROWS, F, cur, nframes, pc, result>>

\* CHECK(X) in a TRY section: X runs, and a failure it left in errno is
\* raised
CHECK(e) ==
    /\ ~Free
    /\ Draws(Chk(e))
    /\ InBlock /\ F[cur].phase = "try"
    /\ IF e # ENoError THEN THROW(e, "check")
       ELSE /\ last' = Stmt("check_ok", cur, "try", ENoError)
            /\ UNCHANGED <<prog, THROWS, F, cur, nframes, pc, result>>

\* RETHROW in a handler: the current kind is raised again, unchanged
RETHROW ==
    /\ Draws(Rethr)
    /\ InBlock /\ F[cur].phase = "handler"
    /\ THROW(THROWS, "rethrow")

\* } IN : the TRY section ran to its end
EndTry ==
    /\ InBlock /\ F[cur].phase = "try"
    /\ DrawsEnd
    /\ F' = [F EXCEPT ![cur].phase = "guard"]
    /\ last' = Stmt("end", cur, "try", THROWS)
    /\ UNCHANGED <<prog, THROWS, cur, nframes, pc, result>>

\* IN: while(0); if (THROWS == ENoError) { ...
INGuard ==
    /\ pc = "run" /\ cur # 0 /\ F[cur].phase = "guard"
    /\ F' = IF THROWS = ENoError
            THEN [F EXCEPT ![cur].phase = "in", ![cur].nin = @ + 1]
            ELSE [F EXCEPT ![cur].phase = "dispatch"]
    /\ last' = Stmt("in", cur, "guard", THROWS)
    /\ UNCHANGED <<prog, THROWS, cur, nframes, pc, result>>

\* } HANDLE : the IN body ran to its end
EndIn ==
    /\ InBlock /\ F[cur].phase = "in"
    /\ DrawsEnd
    /\ F' = [F EXCEPT ![cur].phase = "dispatch"]
    /\ last' = Stmt("end", cur, "in", THROWS)
    /\ UNCHANGED <<prog, THROWS, cur, nframes, pc, result>>

\* Select with the first clause taken for every error kind
Select_FirstClause(hs, k) ==
    IF k = ENoError \/ k = EEarlyReturn THEN 0
    ELSE IF Len(hs) > 0 THEN 1 ELSE 0

\* the case label switch(THROWS) jumps to: the index of the clause, 0 if none
Select(hs, k) ==
    IF k = ENoError \/ k = EEarlyReturn THEN 0
    ELSE IF \E i \in 1..Len(hs) : ~hs[i].wild /\ hs[i].k = k
         THEN CHOOSE i \in 1..Len(hs) : ~hs[i].wild /\ hs[i].k = k
         ELSE IF \E i \in 1..Len(hs) : hs[i].wild
              THEN CHOOSE i \in 1..Len(hs) : hs[i].wild
              ELSE 0

\* the value of THROWS where the body of clause i starts: EXC_CASE puts
\* nothing between the label E: and the body
AtLabel(i, k) == k

\* HANDLE: switch(THROWS) { case ENoError: case EEarlyReturn: break; ...
HANDLE(hs) ==
    /\ pc = "run" /\ cur # 0 /\ F[cur].phase = "dispatch"
    /\ IF Free THEN TRUE ELSE hs = prog.frames[cur].hs
    /\ LET i == Select(hs, THROWS)
           FF == [F EXCEPT ![cur].ndisp = @ + 1, ![cur].dispK = THROWS]
       IN /\ F' = IF i = 0 THEN StartFin(FF, cur, THROWS)
                  ELSE [FF EXCEPT ![cur].phase = "handler", ![cur].hs = hs,
                                  ![cur].hsel = i, ![cur].nh = @ + 1]
          /\ THROWS' = AtLabel(i, THROWS)
    /\ last' = [Stmt("handle", cur, "dispatch", THROWS) EXCEPT !.hs = hs]
    /\ UNCHANGED <<prog, cur, nframes, pc, result>>

\* the value of THROWS after the body of clause i ran to its end: the
\* THROWS = ENoError; break; of the next EXC_CASE, or the break; of FINALLY
EXC_CASE(hs, i, k) == IF i < Len(hs) THEN ENoError ELSE k

\* EndHandler with no break; in EXC_CASE: the body of a clause runs on into
\* the body of the next one
EndHandler_FallThrough ==
    /\ InBlock /\ F[cur].phase = "handler"
    /\ DrawsEnd
    /\ IF F[cur].hsel < Len(F[cur].hs)
       THEN /\ THROWS' = ENoError
            /\ F' = [F EXCEPT ![cur].hsel = @ + 1, ![cur].nh = @ + 1]
       ELSE /\ THROWS' = THROWS
            /\ F' = StartFin(F, cur, THROWS)
    /\ last' = Stmt("end", cur, "handler", THROWS)
    /\ UNCHANGED <<prog, cur, nframes, pc, result>>

\* a handler body ran to its end
EndHandler ==
    /\ InBlock /\ F[cur].phase = "handler"
    /\ DrawsEnd
    /\ LET k == EXC_CASE(F[cur].hs, F[cur].hsel, THROWS) IN
        /\ THROWS' = k
        /\ F' = StartFin(F, cur, k)
    /\ last' = Stmt("end", cur, "handler", THROWS)
    /\ UNCHANGED <<prog, cur, nframes, pc, result>>

\* ENDTRY after a nested frame: a pending kind leaves the enclosing block
ENDTRY(FF, f, k) ==
    IF k # ENoError THEN Break(FF, f, k) ELSE [F |-> FF, cur |-> f]

\* the finalizer block ran to its end: the frame is closed
EndFin(et) ==
    /\ InBlock /\ F[cur].phase = "fin"
    /\ DrawsEnd
    /\ IF Free THEN TRUE ELSE et = prog.frames[cur].endtry
    /\ et => Breakable(F, F[cur].parent)
    /\ LET FF == [F EXCEPT ![cur] = Closed(F[cur], THROWS)]
           b == IF et THEN ENDTRY(FF, F[cur].parent, THROWS)
                ELSE [F |-> FF, cur |-> F[cur].parent]
       IN /\ F' = b.F
          /\ cur' = b.cur
    /\ last' = [Stmt("end", cur, "fin", THROWS) EXCEPT !.et = et]
    /\ UNCHANGED <<prog, THROWS, nframes, pc, result>>

\* EXIT: return THROWS;
EXIT ==
    /\ pc = "run" /\ cur = 0
    /\ IF Free THEN TRUE ELSE ~NextChildHere /\ prog.exit = "EXIT"
    /\ pc' = "done"
    /\ result' = THROWS
    /\ last' = Stmt("exit", 0, "top", THROWS)
    /\ UNCHANGED <<prog, THROWS, F, cur, nframes>>

\* DONE: the final kind is returned, EEarlyReturn as ENoError (the functions
\* of tests.c end with it)
DONE ==
    /\ pc = "run" /\ cur = 0
    /\ ~NextChildHere /\ prog.exit = "DONE"
    /\ pc' = "done"
    /\ result' = IF THROWS = EEarlyReturn THEN ENoError ELSE THROWS
    /\ last' = Stmt("done", 0, "top", THROWS)
    /\ UNCHANGED <<prog, THROWS, F, cur, nframes>>

Next ==
    \/ \E d \in TryExprs : TRY(d)
    \/ \E e \in ErrnoValues, c \in BOOLEAN : TRYE(e, c)
    \/ \E e \in ErrnoValues : CHECK(e)
    \/ Throw
    \/ RETURN
    \/ \E isnull \in BOOLEAN, r \in MaybeKinds : MAYBE(isnull, r)
    \/ RETHROW
    \/ EndTry
    \/ INGuard
    \/ EndIn
    \/ \E hs \in HandlerLists : HANDLE(hs)
    \/ EndHandler
    \/ \E et \in BOOLEAN : EndFin(et)
    \/ EXIT
    \/ DONE

Spec == Init /\ [][Next]_vars

\* The runs progress is checked on: the same steps, with fewer values drawn
\* for any function (TRY without argument, one kind thrown, one kind for
\* MAYBE, no handler or CATCH and OTHERWISE); the functions of tests.c run
\* as they are.  Every block of the function terminates: a step that can be
\* taken is taken.
LiveHandlerLists == {<<>>, <<CATCH(EInvalidOp), OTHERWISE>>}

LiveNext ==
    \/ TRY(NoExpr)
    \/ \E e \in ErrnoValues, c \in BOOLEAN : TRYE(e, c)
    \/ \E e \in ErrnoValues : CHECK(e)
    \/ Throw /\ (Free => last'.k = EInvalidOp)
    \/ RETURN
    \/ \E isnull \in BOOLEAN,
          r \in (IF Free THEN {EUnrecoverable} ELSE MaybeKinds) :
            MAYBE(isnull, r)
    \/ RETHROW
    \/ EndTry
    \/ INGuard
    \/ EndIn
    \/ \E hs \in (IF Free THEN LiveHandlerLists ELSE HandlerLists) : HANDLE(hs)
    \/ EndHandler
    \/ \E et \in BOOLEAN : EndFin(et)
    \/ EXIT
    \/ DONE

LiveSpec == Init /\ [][LiveNext]_vars /\ WF_vars(LiveNext)

\* ---------------------------------------------------------------- properties
Entered(f) == F[f].phase # "none"
Open(f) == F[f].phase \notin {"none", "closed"}
IsClosed(f) == F[f].phase = "closed"
IsErr(k) == k # ENoError /\ k # EEarlyReturn

\* a frame was entered in block sec of frame f
NestedIn(f, sec) ==
    \E g \in Frames : Entered(g) /\ F[g].parent = f /\ F[g].psec = sec

\* no frame was entered in a block of frame a (0: at function level) after b
NoLaterIn(a, b) ==
    \A g \in Frames : (g > b /\ Entered(g)) => F[g].parent # a

\* the handler list declares CATCH(k) or a wildcard
Declares(hs, k) ==
    \E i \in 1..Len(hs) : hs[i].wild \/ hs[i] = CATCH(k)

\* clause c is the one to run for kind k among hs
Matches(hs, c, k) ==
    \/ c = CATCH(k)
    \/ c.wild /\ \A i \in 1..Len(hs) : hs[i] # CATCH(k)

\* the blocks started so far: the value of *p in tests.c, where each block
\* that may run starts with mark(p)
RECURSIVE MarksUpTo(_)
MarksUpTo(n) ==
    IF n = 0 THEN 0
    ELSE MarksUpTo(n - 1)
         + (IF Entered(n) THEN 1 + F[n].nin + F[n].nh + F[n].nfin ELSE 0)
Marks == MarksUpTo(MaxFrames)

\* C1: the finalizer block of every frame that was entered starts exactly
\* once before the function returns: never twice, not before the frame's
\* bodies and handlers are left, and once for every frame when the function
\* has returned.
C1_FinalizerExactlyOnce ==
    /\ \A f \in Frames : F[f].nfin <= 1
    /\ \A f \in Frames : F[f].phase \in {"fin", "closed"} => F[f].nfin = 1
    /\ \A f \in Frames :
         F[f].phase \in {"none", "try", "guard", "in", "dispatch", "handler"}
           => F[f].nfin = 0
    /\ pc = "done" => \A f \in Frames : Entered(f) => IsClosed(f) /\ F[f].nfin = 1

\* a function returned after a frame nested in a handler closed with an error
C1_Witness ==
    /\ pc = "done" /\ nframes = 2
    /\ F[2].parent = 1 /\ F[2].psec = "handler" /\ IsErr(F[2].closeK)
    /\ F[1].nfin = 1 /\ F[2].nfin = 1

\* C2: after RETURN in a frame, with nothing raised afterwards, the
\* function returns ENoError: EEarlyReturn is never the value returned by a
\* function that entered a frame.
C2_SentinelInvisible ==
    (pc = "done" /\ nframes >= 1) => result # EEarlyReturn

\* C3: when the body of a selected handler, whatever its position in the
\* list, runs to its end, the current kind is ENoError when the finalizer
\* starts; test_noerr, whose only raise is handled, returns ENoError.
C3_HandledMeansCleared ==
    /\ (last.op = "end" /\ last.sec = "handler")
         => THROWS = ENoError /\ F[last.f].finK = ENoError
    /\ (pc = "done" /\ prog.name = "test_noerr") => result = ENoError

\* C4: a real kind a frame closed with is never replaced by ENoError by
\* entering a later frame in the same enclosing block.
C4_KindNeverLost ==
    \A g \in Frames :
      ~(/\ last.op = "try" /\ g # last.f
        /\ IsClosed(g) /\ IsErr(F[g].closeK)
        /\ F[g].parent = F[last.f].parent /\ F[g].psec = F[last.f].psec
        /\ last.k = F[g].closeK
        /\ THROWS = ENoError)

\* C5 as stated: after THROW(k) in either body, the finalizer of the frame
\* starts only after handler dispatch on k.
C5_ThrowThenDispatch ==
    \A f \in Frames :
      (F[f].phase = "fin" /\ F[f].raisedIn # "none" /\ F[f].raisedBy = "throw")
        => F[f].ndisp = 1 /\ F[f].dispK = F[f].raisedK

\* C5, amended: THROW(k) in the TRY section sets the current kind, skips
\* the rest of the section and the IN body, and the frame dispatches on k:
\* a declared CATCH(k) or wildcard runs before the finalizer.  THROW(k) in
\* the IN body sets the current kind and skips the rest of the body and the
\* dispatch: the finalizer starts with kind k and no handler has run.
C5_ThrowInBody ==
    /\ (last.op = "throw" /\ last.sec = "try")
         => /\ cur = last.f /\ THROWS = last.k
            /\ F[cur].phase = "guard" /\ F[cur].nin = 0
    /\ (last.op = "in" /\ IsErr(last.k))
         => F[last.f].phase = "dispatch" /\ F[last.f].nin = 0
    /\ \A f \in Frames :
         (F[f].raisedBy = "throw" /\ F[f].raisedIn = "try"
            /\ F[f].phase \in {"handler", "fin"})
           => F[f].ndisp = 1 /\ F[f].dispK = F[f].raisedK
    /\ (last.op = "handle" /\ F[last.f].raisedBy = "throw"
          /\ F[last.f].raisedIn = "try" /\ Declares(last.hs, last.k))
         => /\ F[last.f].phase = "handler" /\ F[last.f].nfin = 0
            /\ F[last.f].nh = 1
            /\ Matches(last.hs, last.hs[F[last.f].hsel], last.k)
    /\ (last.op = "throw" /\ last.sec = "in")
         => /\ cur = last.f /\ THROWS = last.k
            /\ F[cur].phase = "fin" /\ F[cur].finK = last.k
            /\ F[cur].ndisp = 0 /\ F[cur].nh = 0

\* a handler body runs, before the finalizer, for the kind thrown in the
\* TRY section
C5_Witness ==
    \E f \in Frames :
      /\ F[f].phase = "handler" /\ F[f].raisedIn = "try"
      /\ F[f].raisedBy = "throw" /\ F[f].dispK = EUnrecoverable
      /\ F[f].nfin = 0 /\ cur = f

\* C6: THROW(e) in the IN body skips the rest of the body, no handler of
\* the frame runs, the finalizer starts once and finds the current kind e;
\* test_unwind_in marks 3 blocks and returns e.
C6_UnwindIn ==
    /\ (last.op = "throw" /\ last.sec = "in")
         => cur = last.f /\ F[cur].phase = "fin"
    /\ \A f \in Frames :
         (F[f].raisedIn = "in" /\ F[f].raisedBy = "throw" /\ Open(f))
           => /\ F[f].phase = "fin" /\ F[f].nin = 1
              /\ F[f].ndisp = 0 /\ F[f].nh = 0
              /\ F[f].nfin = 1 /\ F[f].finK = F[f].raisedK
    /\ (prog.name = "test_unwind_in" /\ pc = "done")
         => /\ result = prog.frames[1].in.k
            /\ F[1].nin = 1 /\ F[1].nh = 0 /\ F[1].nfin = 1
            /\ Marks = 3

\* test_unwind_in(EUnrecoverable) has returned EUnrecoverable
C6_Witness ==
    /\ prog.name = "test_unwind_in" /\ pc = "done"
    /\ result = EUnrecoverable /\ Marks = 3

\* C7: for B nested in A: while B is not closed, A has neither evaluated
\* its switch (B in A's TRY section or IN body) nor started its finalizer;
\* and when B closed with a kind of its body that none of its handlers
\* matched, the switch of A is evaluated on exactly that kind.
C7_InnerBeforeOuter ==
    /\ \A b \in Frames :
         (Open(b) /\ F[b].parent # 0)
           => /\ F[F[b].parent].phase = F[b].psec
              /\ F[b].psec \in {"try", "in"} => F[F[b].parent].ndisp = 0
              /\ F[b].psec # "fin" => F[F[b].parent].nfin = 0
    /\ \A b \in Frames :
         (Entered(b) /\ F[b].parent # 0 /\ F[b].psec \in {"try", "in"}
            /\ F[F[b].parent].ndisp >= 1)
           => IsClosed(b) /\ F[b].nfin = 1
    /\ \A b \in Frames :
         (Entered(b) /\ F[b].parent # 0 /\ F[b].psec # "fin"
            /\ F[F[b].parent].nfin >= 1)
           => IsClosed(b) /\ F[b].nfin = 1
    /\ \A b \in Frames :
         (/\ last.op = "handle" /\ F[b].parent = last.f
          /\ IsClosed(b) /\ F[b].psec \in {"try", "in"}
          /\ F[b].why = "unmatched")
           => last.k = F[b].closeK /\ F[last.f].dispK = F[b].closeK

\* C8: THROW(k2) in the selected handler of B: the switch of B is not
\* evaluated again and B's finalizer starts once with kind k2; when B, in
\* A's TRY section, has closed with k2, no statement of that section runs
\* after it, the switch of A is evaluated on k2 and A's CATCH(k2) runs.
\* test_unwind_try marks 6 blocks and returns e; the statement after the
\* inner frame and both IN bodies do not run.
C8_RaiseInHandler ==
    /\ (last.op = "throw" /\ last.sec = "handler")
         => /\ cur = last.f /\ THROWS = last.k
            /\ F[cur].phase = "fin" /\ F[cur].finK = last.k
    /\ \A f \in Frames :
         (F[f].hraise = "throw" /\ Open(f))
           => /\ F[f].phase = "fin" /\ F[f].finK = F[f].hraiseK
              /\ F[f].ndisp = 1 /\ F[f].nh = 1 /\ F[f].nfin = 1
    /\ \A b \in Frames :
         (IsClosed(b) /\ F[b].parent # 0 /\ F[b].psec = "try"
            /\ F[b].why = "hthrow")
           => F[F[b].parent].phase # "try"
    /\ \A b \in Frames :
         (/\ last.op = "handle" /\ F[b].parent = last.f
          /\ IsClosed(b) /\ F[b].psec = "try" /\ F[b].why = "hthrow")
           => /\ last.k = F[b].closeK
              /\ (\E i \in 1..Len(last.hs) : last.hs[i] = CATCH(last.k))
                   => /\ F[last.f].phase = "handler"
                      /\ F[last.f].hs[F[last.f].hsel] = CATCH(last.k)
    /\ prog.name = "test_unwind_try"
         => /\ ~(cur = 1 /\ F[1].phase = "try" /\ nframes = 2)
            /\ F[1].nin = 0 /\ F[2].nin = 0
            /\ (cur = 2 /\ F[2].phase = "fin")
                 => THROWS = EInvalidOp /\ THROWS # prog.frames[2].try.k
            /\ (cur = 1 /\ F[1].phase = "handler")
                 => F[1].hsel = 1 /\ F[1].dispK = EInvalidOp /\ IsClosed(2)
            /\ pc = "done"
                 => /\ result = prog.frames[1].h[1].k
                    /\ Marks = 6
                    /\ F[1].nh = 1 /\ F[2].nh = 1
                    /\ F[1].nfin = 1 /\ F[2].nfin = 1
                    /\ F[2].closeK = EInvalidOp

\* C9: where the body of a selected handler starts the current kind is
\* still the raised kind k; after the handler raised the current kind
\* again, the finalizer of the frame finds k; k is what the switch of the
\* enclosing frame is evaluated on, or what the function returns when the
\* frame is outermost.
C9_RethrowFidelity ==
    /\ (last.op = "handle" /\ F[last.f].phase = "handler")
         => THROWS = last.k /\ IsErr(THROWS)
    /\ \A f \in Frames :
         (F[f].hraise = "rethrow" /\ Open(f))
           => /\ F[f].phase = "fin" /\ F[f].nfin = 1
              /\ F[f].finK = F[f].dispK /\ IsErr(F[f].finK)
    /\ \A b \in Frames :
         (/\ last.op = "handle" /\ F[b].parent = last.f
          /\ IsClosed(b) /\ F[b].psec \in {"try", "in"}
          /\ F[b].why = "rethrow")
           => last.k = F[b].closeK
    /\ \A b \in Frames :
         (pc = "done" /\ IsClosed(b) /\ F[b].parent = 0
            /\ F[b].why = "rethrow")
           => result = F[b].closeK
    /\ (pc = "done" /\ prog = test_maybe(TRUE)) => result = EUnrecoverable

\* C10: MAYBE(expr, kind) in the TRY section with expr NULL makes kind the
\* current kind, the IN body does not run and a declared handler for kind
\* runs; with expr non-NULL nothing is raised.
C10_MaybeBinding ==
    /\ (last.op = "maybe")
         => THROWS = last.k /\ F[last.f].phase = "guard"
    /\ (last.op = "maybe_ok")
         => cur = last.f /\ F[cur].phase = "try" /\ F[cur].raisedIn = "none"
    /\ \A f \in Frames :
         (F[f].raisedBy = "maybe" /\ F[f].raisedIn = "try") => F[f].nin = 0
    /\ (last.op = "handle" /\ F[last.f].raisedBy = "maybe"
          /\ F[last.f].raisedIn = "try"
          /\ Declares(last.hs, F[last.f].raisedK))
         => F[last.f].phase = "handler"

\* C11: TRY(expr) with an expression that yields an exc_type: where the
\* TRY section starts, the current kind is the value of expr.
C11_TryBindsValue ==
    (last.op = "try" /\ last.d.given) => THROWS = last.d.v

\* C12: TRYE(X, C): the current kind is ENoError when the success condition
\* holds and the value X left in errno otherwise.  test_errno(e), built on
\* CHECK: for e # ENoError the IN body does not run, the wildcard handler
\* runs and after the re-raise the function returns e; for e = ENoError the
\* IN body runs, no handler runs and the function returns ENoError.
C12_ErrnoBinding ==
    /\ last.op = "trye" => THROWS = last.d.v
    /\ (prog.name = "test_errno" /\ pc = "done")
         => /\ result = prog.frames[1].try.k
            /\ prog.frames[1].try.k # ENoError
                 => F[1].nin = 0 /\ F[1].nh = 1
            /\ prog.frames[1].try.k = ENoError
                 => F[1].nin = 1 /\ F[1].nh = 0

\* C13: immediately after THROWS(...) the current kind is ENoError, and a
\* function that reaches EXIT without entering a frame returns ENoError.
C13_StartsNoError ==
    /\ last.op = "none" => THROWS = ENoError
    /\ (pc = "done" /\ nframes = 0 /\ last.op = "exit") => result = ENoError

\* the named error kinds of the modelled part of exc_type
NamedErrorKinds == {ENullRef, EEnsureViolated, EInvalidOp, EUnrecoverable}

\* C14: ENoError and EEarlyReturn differ, no named error kind has the value
\* of ENoError or of EEarlyReturn, and raising a named error kind makes the
\* current kind differ from ENoError.
C14_SentinelDistinct ==
    /\ ENoError # EEarlyReturn
    /\ \A k \in NamedErrorKinds : k # ENoError /\ k # EEarlyReturn
    /\ last.op \in {"throw", "maybe", "check"} => THROWS # ENoError

\* C15: in one activation of a frame the switch is evaluated once and at
\* most one handler body runs; CATCH(k) is selected only for the kind k, the
\* wildcard only for a kind no CATCH of the frame names; when no clause
\* matches and there is no wildcard, no handler body runs and the current
\* kind is what it was.
C15_HandlerSelection ==
    /\ \A f \in Frames : F[f].nh <= 1 /\ F[f].ndisp <= 1
    /\ \A f \in Frames : F[f].phase = "handler" => F[f].nh = 1
    /\ (last.op = "handle" /\ F[last.f].phase = "handler")
         => /\ F[last.f].hs = last.hs
            /\ F[last.f].hsel \in 1..Len(last.hs)
            /\ LET c == last.hs[F[last.f].hsel] IN
                 /\ ~c.wild => c.k = last.k
                 /\ c.wild => \A i \in 1..Len(last.hs) : last.hs[i] # CATCH(last.k)
    /\ (last.op = "handle" /\ ~Declares(last.hs, last.k))
         => /\ F[last.f].phase = "fin" /\ F[last.f].nh = 0
            /\ THROWS = last.k /\ F[last.f].finK = last.k

\* CATCH(EInvalidOp), declared after the wildcard, is selected for EInvalidOp
C15_Witness ==
    /\ last.op = "handle" /\ last.k = EInvalidOp
    /\ last.hs = <<OTHERWISE, CATCH(EInvalidOp)>>
    /\ F[last.f].phase = "handler" /\ F[last.f].hsel = 2

\* C16: the IN body of a frame starts exactly when the current kind is
\* ENoError where the TRY section ends; a THROW of a kind other than
\* ENoError, or a MAYBE failure, in the TRY section skips the rest of the
\* section and the whole IN body.
C16_InGuard ==
    /\ last.op = "in" => (F[last.f].phase = "in" <=> last.k = ENoError)
    /\ (last.op \in {"throw", "maybe"} /\ last.sec = "try")
         => F[last.f].phase = "guard" /\ cur = last.f
    /\ \A f \in Frames :
         (F[f].raisedIn = "try" /\ F[f].raisedBy \in {"throw", "maybe"})
           => F[f].nin = 0

\* C17: when the switch of a frame finds ENoError or EEarlyReturn, no
\* handler body of the frame runs, the wildcard included, and the current
\* kind is what it was when the finalizer starts; after RETURN in a frame
\* nested in a block of A, with A raising nothing in that block itself, the
\* finalizer of A finds EEarlyReturn.
C17_SentinelsBypass ==
    /\ (last.op = "handle" /\ last.k \in {ENoError, EEarlyReturn})
         => /\ F[last.f].phase = "fin" /\ F[last.f].nh = 0
            /\ THROWS = last.k /\ F[last.f].finK = last.k
    /\ \A f \in Frames :
         (F[f].ndisp = 1 /\ F[f].dispK \in {ENoError, EEarlyReturn} /\ Open(f))
           => F[f].nh = 0
    /\ \A b \in Frames :
         (/\ IsClosed(b) /\ F[b].closeK = EEarlyReturn /\ F[b].parent # 0
          /\ F[F[b].parent].phase = "fin"
          /\ \/ F[b].psec \in {"try", "in"} /\ F[F[b].parent].raisedIn = "none"
             \/ F[b].psec = "handler" /\ F[F[b].parent].hraise = "none")
           => F[F[b].parent].finK = EEarlyReturn

\* C18: THROW(k) in the finalizer block of B closes B: no handler of B runs
\* and its finalizer does not start again; control is in the enclosing
\* frame A with current kind k: at A's IN test when B is in A's TRY section
\* (so A's switch finds k), in A's finalizer when B is in A's IN body or
\* handler; A's finalizer starts once.
C18_RaiseInFinalizer ==
    /\ \A f \in Frames : IsClosed(f) => cur # f /\ F[f].nfin = 1 /\ F[f].nh <= 1
    /\ (last.op = "throw" /\ last.sec = "fin")
         => /\ IsClosed(last.f) /\ THROWS = last.k
            /\ F[last.f].parent # 0
            /\ F[last.f].why = "fthrow" /\ F[last.f].closeK = last.k
            /\ LET a == F[last.f].parent IN
                 /\ F[last.f].psec = "try"
                      => /\ cur = a /\ F[a].phase = "guard"
                         /\ F[a].ndisp = 0 /\ F[a].nfin = 0
                 /\ F[last.f].psec \in {"in", "handler"}
                      => /\ cur = a /\ F[a].phase = "fin"
                         /\ F[a].nfin = 1 /\ F[a].finK = last.k
                 /\ F[last.f].psec = "fin"
                      => IsClosed(a) /\ F[a].nfin = 1
    /\ \A b \in Frames :
         (/\ last.op = "handle" /\ F[b].parent = last.f
          /\ IsClosed(b) /\ F[b].psec = "try" /\ F[b].why = "fthrow"
          /\ NoLaterIn(last.f, b) /\ F[last.f].raisedIn = "none")
           => last.k = F[b].closeK /\ F[last.f].nfin <= 1
    /\ pc = "done" => \A f \in Frames : Entered(f) => F[f].nfin = 1

\* the handler of A runs for the kind thrown in the finalizer of B
C18_Witness ==
    \E b \in Frames :
      /\ last.op = "handle" /\ last.k = EUnrecoverable
      /\ F[b].parent = last.f /\ IsClosed(b) /\ F[b].psec = "try"
      /\ F[b].why = "fthrow" /\ F[b].closeK = EUnrecoverable
      /\ F[last.f].phase = "handler"

\* C19: a frame entered in a handler or finalizer block of A while A's
\* current kind is k (an error kind), that raises nothing and completes
\* (its IN body ran, none of its handlers did), leaves the current kind k
\* in its finalizer and when it closes.
C19_PendingKindKept ==
    /\ \A b \in Frames :
         (/\ F[b].phase = "fin" /\ cur = b
          /\ F[b].psec \in {"handler", "fin"} /\ IsErr(F[b].pendK)
          /\ F[b].raisedIn = "none" /\ F[b].hraise = "none" /\ ~F[b].fraise
          /\ F[b].nin = 1 /\ F[b].nh = 0 /\ ~NestedIn(b, "try")
          /\ ~NestedIn(b, "in") /\ ~NestedIn(b, "fin"))
           => THROWS = F[b].pendK
    /\ \A b \in Frames :
         (/\ last.op = "end" /\ last.sec = "fin" /\ last.f = b /\ IsClosed(b)
          /\ F[b].psec \in {"handler", "fin"} /\ IsErr(F[b].pendK)
          /\ F[b].nin = 1 /\ F[b].nh = 0
          /\ F[b].closeK \in {ENoError, F[b].pendK})
           => THROWS = F[b].pendK

\* the order of the phases of one activation of a frame
PhaseRank(ph) ==
    CASE ph = "none" -> 0
      [] ph = "try" -> 1
      [] ph = "guard" -> 2
      [] ph = "in" -> 3
      [] ph = "dispatch" -> 4
      [] ph = "handler" -> 5
      [] ph = "fin" -> 6
      [] ph = "closed" -> 7

\* no frame moves back to an earlier phase, and a closed frame stays as it is
Forward ==
    \A f \in Frames :
      /\ PhaseRank(F'[f].phase) >= PhaseRank(F[f].phase)
      /\ IsClosed(f) => F'[f] = F[f]

\* C20: when every block terminates, every frame that was entered is
\* eventually closed and the function eventually returns; the phases of a
\* frame only move forward (TRY section, IN body, dispatch, handler,
\* finalizer, closed) and none is entered twice.
C20_Progress ==
    /\ [](\A f \in Frames :
            F[f].nin <= 1 /\ F[f].ndisp <= 1 /\ F[f].nh <= 1 /\ F[f].nfin <= 1)
    /\ [][Forward]_vars
    /\ \A f \in Frames : [](Entered(f) => <>IsClosed(f))
    /\ <>(pc = "done")
    /\ [](pc = "done" => \A f \in Frames : Entered(f) => IsClosed(f))

\* the function has returned after two frames, one nested in the handler of
\* the other, went through all their phases
C20_Witness ==
    /\ pc = "done" /\ nframes = 2
    /\ F[2].parent = 1 /\ F[2].psec = "handler"
    /\ IsClosed(1) /\ IsClosed(2)
    /\ F[2].nin = 1 /\ F[2].nfin = 1 /\ F[1].nh = 1 /\ F[1].nfin = 1

====
